---- MODULE Spec2Model ----
(***************************************************************************)
(* The claim-analysis pipeline of SatyaTrace (orchestrator.py):            *)
(* extract_claims -> retrieve_relevant_context -> search_claim_origin ->   *)
(* synthesize_response, sequenced by run_analysis.                         *)
(*                                                                         *)
(* A Python str is a sequence of symbols.  A symbol is a TLA+ string: one  *)
(* character ("5", ".", "\n"), or a literal phrase of the source kept      *)
(* whole ("**The Gist:**").  The emoji of the source are written by name:  *)
(* RED, YELLOW, GREEN (risk glyphs), CAL (calendar), CHART (bar chart),    *)
(* MAG (magnifying glass).                                                 *)
(***************************************************************************)
EXTENDS Integers, Sequences, FiniteSets, TLC

VARIABLES
    pc,            \* position of the run inside run_analysis
    text,          \* text_in_english, the argument of run_analysis
    claims,        \* list returned by extract_claims
    context,       \* list returned by retrieve_relevant_context
    forensics,     \* dict returned by search_claim_origin
    result,        \* string returned by run_analysis
    llmExtract,    \* outcome of model.generate_content in extract_claims
    indexHits,     \* indices returned by faiss_index.search, per claim
    query,         \* the q parameter sent to the search provider
    searchEnv,     \* credential and outcome of requests.get in search_claim_origin
    prompt,        \* values interpolated into the prompt of synthesize_response
    llmSynth,      \* outcome of model.generate_content in synthesize_response
    embedder,      \* module global: TRUE when the sentence transformer loaded
    faiss_index,   \* module global: TRUE when the FAISS index loaded
    knowledge_base, \* module global: the list of passages
    calls,         \* the stage calls run_analysis has made, with their arguments
    hpc,           \* position of the webhook request and of its task (main.py)
    request,       \* the form of the incoming webhook request
    from_number,   \* whatsapp_webhook: From without the whatsapp: prefix
    message_body,  \* whatsapp_webhook: Body trimmed
    http,          \* the response of whatsapp_webhook
    events,        \* the calls of send_message, translate_* and run_analysis, in order
    detected_language, \* process_message_async: result of detect_language
    final_response \* process_message_async: the text passed to the last send

vars == <<pc, text, claims, context, forensics, result, llmExtract, indexHits,
          query, searchEnv, prompt, llmSynth, embedder, faiss_index, knowledge_base,
          calls, hpc, request, from_number, message_body, http, events,
          detected_language, final_response>>

\* the variables of main.py
hookVars == <<hpc, request, from_number, message_body, http, events,
              detected_language, final_response>>

----------------------------------------------------------------------------
(* Bounds of the model *)

MaxRespLen == 5     \* longest reasoning-service response enumerated for extract_claims
MaxResults == 6     \* longest organic_results list enumerated for search_claim_origin

----------------------------------------------------------------------------
(* Python str operations *)

Digits == {"0", "1", "2", "3", "4", "5", "6", "7", "8", "9"}

Whitespace == {" ", "\n", "\t"}

\* the value standing for "no value" (an unset variable, a raised exception)
None == <<"None">>

\* the outcome of an external call that raised; a call that returned text t
\* has the outcome [ok |-> TRUE, text |-> t]
Fail == [ok |-> FALSE, text |-> <<>>]

Returned(t) == [ok |-> TRUE, text |-> t]

Drop(s, n) == SubSeq(s, n + 1, Len(s))

Take(s, n) == SubSeq(s, 1, IF n < Len(s) THEN n ELSE Len(s))

\* number of leading symbols of s that belong to set
RECURSIVE LeadCount(_, _)
LeadCount(s, set) ==
    IF s # <<>> /\ Head(s) \in set THEN 1 + LeadCount(Tail(s), set) ELSE 0

\* number of trailing symbols of s that belong to set
RECURSIVE TrailCount(_, _)
TrailCount(s, set) ==
    IF s # <<>> /\ s[Len(s)] \in set
    THEN 1 + TrailCount(SubSeq(s, 1, Len(s) - 1), set)
    ELSE 0

\* str.lstrip()
LStrip(s) == Drop(s, LeadCount(s, Whitespace))

\* str.strip()
Strip(s) ==
    LET l == LStrip(s)
    IN  SubSeq(l, 1, Len(l) - TrailCount(l, Whitespace))

\* str.startswith(p)
StartsWith(s, p) == Len(s) >= Len(p) /\ SubSeq(s, 1, Len(p)) = p

\* str.find(sep): the number of symbols before the first occurrence of sep,
\* Len(s) when there is none
RECURSIVE Find(_, _)
Find(s, sep) ==
    IF Len(s) < Len(sep) THEN Len(s)
    ELSE IF StartsWith(s, sep) THEN 0
    ELSE LET n == Find(Tail(s), sep)
         IN  IF n = Len(s) - 1 THEN Len(s) ELSE n + 1

\* str.split(sep)
RECURSIVE Split(_, _)
Split(s, sep) ==
    LET n == Find(s, sep)
    IN  IF n = Len(s)
        THEN <<s>>
        ELSE <<Take(s, n)>> \o Split(Drop(s, n + Len(sep)), sep)

\* substring test: sub in s
Contains(s, sub) ==
    \E i \in 0..(Len(s) - Len(sub)) : SubSeq(s, i + 1, i + Len(sub)) = sub

\* re.sub(r'^\d+\.\s*', '', line)
StripNumbering(line) ==
    LET n == LeadCount(line, Digits)
    IN  IF n >= 1 /\ Len(line) > n /\ line[n + 1] = "."
        THEN LStrip(Drop(line, n + 1))
        ELSE line

\* re.sub(r'^-\s*', '', claim)
StripDash(claim) ==
    IF claim # <<>> /\ Head(claim) = "-" THEN LStrip(Tail(claim)) ELSE claim

----------------------------------------------------------------------------
(* extract_claims *)

\* the condition of the if in the parsing loop, on the trimmed line
LineAccepted(line) ==
    line # <<>> /\ (Head(line) \in Digits \/ StartsWith(line, <<"-">>))

\* the claim appended for an accepted trimmed line
ClaimOfLine(line) == Strip(StripDash(StripNumbering(line)))

\* the parsing loop over the lines of the response
RECURSIVE ParseLines(_)
ParseLines(lines) ==
    IF lines = <<>>
    THEN <<>>
    ELSE LET line == Strip(Head(lines))
         IN  (IF LineAccepted(line) THEN <<ClaimOfLine(line)>> ELSE <<>>)
                 \o ParseLines(Tail(lines))

\* extract_claims whose except branch returns [text.strip()]
extract_claims_trimmed(txt, resp) ==
    IF ~resp.ok
    THEN <<Strip(txt)>>
    ELSE ParseLines(Split(Strip(resp.text), <<"\n">>))

\* extract_claims(text) when generate_content had outcome resp
extract_claims(txt, resp) ==
    IF ~resp.ok
    THEN <<txt>>
    ELSE ParseLines(Split(Strip(resp.text), <<"\n">>))

----------------------------------------------------------------------------
(* retrieve_relevant_context *)

\* k = min(3, len(knowledge_base))
TopK(kb) == IF Len(kb) < 3 THEN Len(kb) ELSE 3

\* knowledge_base[idx] of a Python list: a negative idx counts from the end
PyIndex(kb, idx) == IF idx < 0 THEN kb[Len(kb) + idx + 1] ELSE kb[idx + 1]

\* the inner loop over indices[0]
RECURSIVE PassagesAt(_, _)
PassagesAt(kb, indices) ==
    IF indices = <<>>
    THEN <<>>
    ELSE (IF Head(indices) < Len(kb) THEN <<PyIndex(kb, Head(indices))>> ELSE <<>>)
             \o PassagesAt(kb, Tail(indices))

\* the outer loop over the claims; hits[i] is indices[0] for the i-th claim
RECURSIVE AllContext(_, _)
AllContext(kb, hits) ==
    IF hits = <<>>
    THEN <<>>
    ELSE PassagesAt(kb, Head(hits)) \o AllContext(kb, Tail(hits))

\* retrieve_relevant_context(claims); hits.ok = FALSE when encode or search raised
retrieve_relevant_context(emb, idx, kb, hits) ==
    IF ~emb \/ ~idx \/ kb = <<>>
    THEN <<>>
    ELSE IF ~hits.ok THEN <<>> ELSE AllContext(kb, hits.text)

----------------------------------------------------------------------------
(* search_claim_origin *)

QueryLimit == 100   \* claim[:100]

SampleSize == 5     \* sources[:5]

\* f'"{claim[:100]}"'
QueryOf(claim) == <<"\"">> \o Take(claim, QueryLimit) \o <<"\"">>

\* result["link"].split("//")[-1].split("/")[0]
DomainOf(link) ==
    LET parts == Split(link, <<"/", "/">>)
    IN  Head(Split(parts[Len(parts)], <<"/">>))

\* code points of the characters that occur in dates
CodePoint(c) ==
    CASE c = " " -> 32
      [] c = "-" -> 45
      [] c = "0" -> 48
      [] c = "1" -> 49
      [] c = "2" -> 50
      [] c = "3" -> 51
      [] c = "4" -> 52
      [] c = "5" -> 53
      [] c = "6" -> 54
      [] c = "7" -> 55
      [] c = "8" -> 56
      [] c = "9" -> 57

\* a < b for Python str
RECURSIVE StrLess(_, _)
StrLess(a, b) ==
    IF b = <<>> THEN FALSE
    ELSE IF a = <<>> THEN TRUE
    ELSE IF Head(a) = Head(b) THEN StrLess(Tail(a), Tail(b))
    ELSE CodePoint(Head(a)) < CodePoint(Head(b))

\* min(dates) of a non-empty list
RECURSIVE MinStr(_)
MinStr(dates) ==
    IF Len(dates) = 1
    THEN Head(dates)
    ELSE LET m == MinStr(Tail(dates))
         IN  IF StrLess(m, Head(dates)) THEN m ELSE Head(dates)

\* DatesOf reading only the first n results
RECURSIVE DatesOfFirst(_, _)
DatesOfFirst(results, n) ==
    IF results = <<>> \/ n = 0
    THEN <<>>
    ELSE (IF "date" \in DOMAIN Head(results) THEN <<Head(results).date>> ELSE <<>>)
             \o DatesOfFirst(Tail(results), n - 1)

\* DatesOf collecting the dates of the sampled results only, results[:5]
DatesOf_sampled(results) == DatesOfFirst(results, SampleSize)

\* the dates list built by the loop over organic_results
RECURSIVE DatesOf(_)
DatesOf(results) ==
    IF results = <<>>
    THEN <<>>
    ELSE (IF "date" \in DOMAIN Head(results) THEN <<Head(results).date>> ELSE <<>>)
             \o DatesOf(Tail(results))

\* the sources list built by the loop over organic_results
RECURSIVE SourcesOf(_)
SourcesOf(results) ==
    IF results = <<>>
    THEN <<>>
    ELSE (IF "link" \in DOMAIN Head(results)
          THEN <<DomainOf(Head(results).link)>> ELSE <<>>)
             \o SourcesOf(Tail(results))

\* set(sources[:5])
UniqueSources(sources) ==
    LET firstN == Take(sources, SampleSize)
    IN  {firstN[i] : i \in 1..Len(firstN)}

\* the if/elif/else on len(unique_sources)
SpreadPattern(n) ==
    IF n > 3 THEN <<"Widely shared across multiple platforms">>
    ELSE IF n > 1 THEN <<"Shared on a few platforms">>
    ELSE <<"Limited sharing detected">>

\* Analyze sampling the first 5 results instead of the first 5 sources
Analyze_first_results(results) ==
    LET dates == DatesOf(results)
        sampled == SourcesOf(Take(results, SampleSize))
    IN  [first_seen  |-> IF dates = <<>> THEN <<"Recently">> ELSE MinStr(dates),
         spread_info |-> SpreadPattern(Cardinality(UniqueSources(sampled)))]

\* the dict returned when organic_results is present
Analyze(results) ==
    LET dates == DatesOf(results)
    IN  [first_seen  |-> IF dates = <<>> THEN <<"Recently">> ELSE MinStr(dates),
         spread_info |-> SpreadPattern(Cardinality(UniqueSources(SourcesOf(results))))]

NoKeyForensics ==
    [first_seen |-> <<"Unknown">>, spread_info |-> <<"Unable to trace origin">>]

NoResultsForensics ==
    [first_seen |-> <<"Unknown">>, spread_info |-> <<"Unable to trace spread pattern">>]

ExceptForensics ==
    [first_seen |-> <<"Unknown">>, spread_info |-> <<"Search unavailable">>]

(* env.key: SERPAPI_KEY is set.  env.kind is what requests.get and             *)
(* response.json() did:                                                        *)
(*   "transport"  requests.get raised                                          *)
(*   "status"     a response whose status_code is not 200                      *)
(*   "notjson"    status 200, response.json() raised (the body is not JSON)    *)
(*   "nolist"     status 200, a JSON object without "organic_results"          *)
(*   "results"    status 200, a JSON object with organic_results = env.results *)
search_claim_origin(env) ==
    IF ~env.key THEN NoKeyForensics
    ELSE IF env.kind = "transport" THEN ExceptForensics
    ELSE IF env.kind = "status" THEN NoResultsForensics
    ELSE IF env.kind = "notjson" THEN ExceptForensics
    ELSE IF env.kind = "results" THEN Analyze(env.results)
    ELSE NoResultsForensics

----------------------------------------------------------------------------
(* synthesize_response *)

\* "\n".join(lines)
RECURSIVE Join(_)
Join(lines) ==
    IF lines = <<>> THEN <<>>
    ELSE IF Len(lines) = 1 THEN Head(lines)
    ELSE Head(lines) \o <<"\n">> \o Join(Tail(lines))

\* "\n".join(context[:3]) if context else "No specific fact-check data available"
ContextText(ctx) ==
    IF ctx = <<>>
    THEN <<"No specific fact-check data available">>
    ELSE Join(Take(ctx, 3))

\* "\n".join([f"- {claim}" for claim in claims])
ClaimsText(cl) == Join([i \in 1..Len(cl) |-> <<"-", " ">> \o cl[i]])

\* the Trace Report block of the prompt template
TraceBlock(f) ==
    <<"**MAG Trace Report:**", "\n", "CAL First Seen: ">> \o f.first_seen
        \o <<"\n", "CHART How it's Spreading: ">> \o f.spread_info

\* the values interpolated into the prompt
SynthPrompt(cl, ctx, f, original_text) ==
    [original_text |-> original_text,
     claims_text   |-> ClaimsText(cl),
     context_text  |-> ContextText(ctx),
     first_seen    |-> f.first_seen,
     spread_info   |-> f.spread_info,
     trace_block   |-> TraceBlock(f)]

\* the string returned by the except branch of synthesize_response
SynthesisFallback ==
    <<"YELLOW", " ", "MEDIUM RISK", "\n", "\n",
      "**The Gist:**", " ", "Unable to fully verify this information.", "\n", "\n",
      "**Why?**", "\n",
      "BULLET", " ", "Analysis system temporarily unavailable", "\n",
      "BULLET", " ", "Recommend checking with trusted sources", "\n", "\n",
      "**Action:**", " ", "Verify before sharing">>

\* the string returned by the except branch of run_analysis
OrchestratorFallback ==
    <<"YELLOW", " ", "MEDIUM RISK", "\n", "\n",
      "**The Gist:**", " ", "Unable to analyze this message due to technical issues.",
      "\n", "\n",
      "**Why?**", "\n",
      "BULLET", " ", "System temporarily unavailable", "\n",
      "BULLET", " ", "Recommend manual verification", "\n", "\n",
      "**Action:**", " ", "Check with trusted sources before sharing">>

\* synthesize_response letting the exception of generate_content reach the
\* except branch of run_analysis
synthesize_response_reraising(resp) ==
    IF ~resp.ok THEN OrchestratorFallback ELSE Strip(resp.text)

\* synthesize_response(...) when generate_content had outcome resp
synthesize_response(resp) ==
    IF ~resp.ok THEN SynthesisFallback ELSE Strip(resp.text)

----------------------------------------------------------------------------
(* run_analysis *)

\* PrimaryClaim taking the last claim, claims[-1], instead of the first
PrimaryClaim_last(cl, txt) == IF cl # <<>> THEN cl[Len(cl)] ELSE txt

\* primary_claim = claims[0] if claims else text_in_english
PrimaryClaim(cl, txt) == IF cl # <<>> THEN cl[1] ELSE txt

----------------------------------------------------------------------------
(* Inputs and outcomes of the external calls *)

\* all sequences over set of length at most n
SeqsUpTo(set, n) == UNION {[1..k -> set] : k \in 0..n}

Texts == { <<"G">>, <<" ", "5", "G", "\n">> }

ExtractAlphabet == {"5", ".", "-", " ", "\n", "G"}

\* every outcome of the reasoning service enumerated for extract_claims alone
AllExtractOutcomes ==
    {Fail} \cup {Returned(t) : t \in SeqsUpTo(ExtractAlphabet, MaxRespLen)}

\* the outcomes of the extraction call used in whole runs
RunExtractOutcomes ==
    { Fail,
      Returned(<<"5", ".", " ", "G", "\n", "-", " ", "5", "G">>),
      Returned(<<"G", " ", "5">>),
      Returned(<<>>) }

P1 == <<"passage one">>
P2 == <<"passage two">>

KnowledgeBases == { <<>>, <<P1>>, <<P1, P2>> }

\* faiss_index.search returns k indices per claim, -1 standing for "no result"
IndexOutcomes(n, kb) ==
    IF n = 0
    THEN {Returned(<<>>)}
    ELSE {Fail} \cup
         {Returned(h) : h \in [1..n -> [1..TopK(kb) -> -1..(Len(kb) - 1)]]}

P3 == <<"passage three">>
P4 == <<"passage four">>

\* the knowledge bases enumerated for retrieve_relevant_context alone
AllKnowledgeBases == KnowledgeBases \cup { <<P1, P2, P3, P4>> }

\* every outcome of faiss_index.search enumerated for retrieve_relevant_context
\* alone: k indices per claim, each -1, a position of the knowledge base, or
\* the position after its end (an index built from a larger corpus)
AllIndexOutcomes(n, kb) ==
    IF n = 0
    THEN {Returned(<<>>)}
    ELSE {Fail} \cup
         {Returned(h) : h \in [1..n -> [1..TopK(kb) -> -1..Len(kb)]]}

ResultKinds ==
    { [date |-> <<"9">>],
      [link |-> <<"h", ":", "/", "/", "a", "/", "x">>],
      [link |-> <<"h", ":", "/", "/", "b">>, date |-> <<"2", "1">>],
      [link |-> <<"h", ":", "/", "/", "a", "/", "x", "/", "/", "c", "/", "y">>],
      [link |-> <<"d", "/", "p">>, date |-> <<"1", "9">>],
      [link |-> <<"a", "/", "y">>] }

NoCredential == [key |-> FALSE, kind |-> "unused", results |-> <<>>]

SearchFailures ==
    {[key |-> TRUE, kind |-> k, results |-> <<>>] :
        k \in {"transport", "status", "notjson", "nolist"}}

Found(results) == [key |-> TRUE, kind |-> "results", results |-> results]

\* every outcome of the search provider enumerated for search_claim_origin alone
AllSearchEnvs ==
    {NoCredential} \cup SearchFailures
        \cup {Found(r) : r \in SeqsUpTo(ResultKinds, MaxResults)}

\* the outcomes of the search used in whole runs
RunSearchEnvs ==
    {NoCredential} \cup SearchFailures
        \cup { Found(<<>>),
               Found(<<[link |-> <<"h", ":", "/", "/", "b">>, date |-> <<"2", "1">>]>>) }

\* a report that follows the template of the prompt, as the reasoning service
\* is asked to write it
TemplateReport(glyph, tier, trace) ==
    <<glyph, " ", tier, "\n", "\n",
      "**The Gist:**", " ", "gist", "\n", "\n",
      "**Why?**", "\n", "BULLET", " ", "reason", "\n", "\n">>
        \o trace \o
    <<"\n", "\n", "**Action:**", " ", "action">>

\* the texts the reasoning service may return to synthesize_response when the
\* prompt carried the trace block tb
SynthTexts(tb) ==
    { <<"\n">> \o TemplateReport("RED", "HIGH RISK", tb) \o <<" ", "\n">>,
      TemplateReport("GREEN", "LOW RISK",
                     <<"**MAG Trace Report:**", "\n", "CAL First Seen: ", "2", "0",
                       "\n", "CHART How it's Spreading: ", "Going viral">>),
      TemplateReport("RED", "LOW RISK", tb),
      <<"**Action:**", " ", "action", "\n", "**The Gist:**", " ", "gist">>,
      <<"RED", " ", "HIGH RISK", " ", "or", " ", "YELLOW", " ", "MEDIUM RISK">>,
      <<" ", "\n">>,
      <<>> }

SynthOutcomes(tb) == {Fail} \cup {Returned(t) : t \in SynthTexts(tb)}

----------------------------------------------------------------------------
(* The run *)

NoForensics == [first_seen |-> None, spread_info |-> None]

NoPrompt ==
    [original_text |-> None, claims_text |-> None, context_text |-> None,
     first_seen |-> None, spread_info |-> None, trace_block |-> None]

NotCalled == [ok |-> TRUE, text |-> <<>>]

NoRequest == [form_ok |-> FALSE, From |-> <<>>, Body |-> <<>>]

NoResponse == [body |-> None, status |-> 0]

\* no webhook request is being handled: run_analysis is called directly
HookIdle ==
    /\ hpc = "idle"
    /\ request = NoRequest
    /\ from_number = None
    /\ message_body = None
    /\ http = NoResponse
    /\ events = <<>>
    /\ detected_language = None
    /\ final_response = None

\* the record of one stage call of run_analysis
Call(stage, args) == [stage |-> stage, args |-> args]

\* module load: the index and the knowledge base load together or not at all
Loaded ==
    /\ embedder \in BOOLEAN
    /\ \/ faiss_index = FALSE /\ knowledge_base = <<>>
       \/ faiss_index = TRUE /\ knowledge_base \in KnowledgeBases

\* run_analysis has been called with text
Init ==
    /\ Loaded
    /\ text \in Texts
    /\ pc = "extract"
    /\ claims = <<>>
    /\ context = <<>>
    /\ forensics = NoForensics
    /\ result = None
    /\ llmExtract = NotCalled
    /\ indexHits = NotCalled
    /\ query = None
    /\ searchEnv = NoCredential
    /\ prompt = NoPrompt
    /\ llmSynth = NotCalled
    /\ calls = <<>>
    /\ HookIdle

\* Step 1: claims = extract_claims(text_in_english)
ExtractWith(outcomes) ==
    /\ pc = "extract"
    /\ \E r \in outcomes :
          /\ llmExtract' = r
          /\ claims' = extract_claims(text, r)
    /\ calls' = Append(calls, Call("extract", <<text>>))
    /\ pc' = "retrieve"
    /\ UNCHANGED <<text, context, forensics, result, indexHits, query, searchEnv,
                   prompt, llmSynth, embedder, faiss_index, knowledge_base>>
    /\ UNCHANGED hookVars

Extract == ExtractWith(RunExtractOutcomes)

\* Step 2: context = retrieve_relevant_context(claims)
RetrieveWith(outcomes) ==
    /\ pc = "retrieve"
    /\ \E h \in (IF embedder /\ faiss_index /\ knowledge_base # <<>>
                 THEN outcomes
                 ELSE {NotCalled}) :
          /\ indexHits' = h
          /\ context' = retrieve_relevant_context(embedder, faiss_index,
                                                  knowledge_base, h)
    /\ calls' = Append(calls, Call("retrieve", <<claims>>))
    /\ pc' = "trace"
    /\ UNCHANGED <<text, claims, forensics, result, llmExtract, query, searchEnv,
                   prompt, llmSynth, embedder, faiss_index, knowledge_base>>
    /\ UNCHANGED hookVars

Retrieve == RetrieveWith(IndexOutcomes(Len(claims), knowledge_base))

\* Step 3: forensics = search_claim_origin(primary_claim)
TraceWith(envs) ==
    /\ pc = "trace"
    /\ \E env \in envs :
          /\ searchEnv' = env
          /\ query' = IF env.key THEN QueryOf(PrimaryClaim(claims, text)) ELSE None
          /\ forensics' = search_claim_origin(env)
    /\ calls' = Append(calls, Call("trace", <<PrimaryClaim(claims, text)>>))
    /\ pc' = "synthesize"
    /\ UNCHANGED <<text, claims, context, result, llmExtract, indexHits,
                   prompt, llmSynth, embedder, faiss_index, knowledge_base>>
    /\ UNCHANGED hookVars

Trace == TraceWith(RunSearchEnvs)

\* the provider accepts the connection and never answers
NoAnswer == [key |-> TRUE, kind |-> "noanswer", results |-> <<>>]

\* Step 3 when the provider never answers: requests.get is called without a
\* timeout, so the call does not return and the run stays inside it
TraceBlocks ==
    /\ pc = "trace"
    /\ searchEnv' = NoAnswer
    /\ query' = QueryOf(PrimaryClaim(claims, text))
    /\ calls' = Append(calls, Call("trace", <<PrimaryClaim(claims, text)>>))
    /\ pc' = "blocked"
    /\ UNCHANGED <<text, claims, context, forensics, result, llmExtract, indexHits,
                   prompt, llmSynth, embedder, faiss_index, knowledge_base>>
    /\ UNCHANGED hookVars

\* Step 4: result = synthesize_response(claims, context, forensics, text);
\* return result
Synthesize ==
    /\ pc = "synthesize"
    /\ prompt' = SynthPrompt(claims, context, forensics, text)
    /\ \E r \in SynthOutcomes(TraceBlock(forensics)) :
          /\ llmSynth' = r
          /\ result' = synthesize_response(r)
    /\ calls' = Append(calls, Call("synthesize", <<claims, context, forensics, text>>))
    /\ pc' = "done"
    /\ UNCHANGED <<text, claims, context, forensics, llmExtract, indexHits, query,
                   searchEnv, embedder, faiss_index, knowledge_base>>
    /\ UNCHANGED hookVars

Next == Extract \/ Retrieve \/ Trace \/ TraceBlocks \/ Synthesize

Spec == Init /\ [][Next]_vars

(* extract_claims alone, over every enumerated response *)
NextExtract == ExtractWith(AllExtractOutcomes)

InitExtract == Init /\ embedder /\ faiss_index /\ knowledge_base = <<P1>>

SpecExtract == InitExtract /\ [][NextExtract]_vars

(* retrieve_relevant_context alone, over every enumerated index outcome,   *)
(* from the states of a run whose extraction call has returned             *)
InitRetrieve ==
    /\ embedder \in BOOLEAN
    /\ \/ faiss_index = FALSE /\ knowledge_base = <<>>
       \/ faiss_index = TRUE /\ knowledge_base \in AllKnowledgeBases
    /\ text \in Texts
    /\ pc = "retrieve"
    /\ llmExtract \in RunExtractOutcomes
    /\ claims = extract_claims(text, llmExtract)
    /\ calls = <<Call("extract", <<text>>)>>
    /\ HookIdle
    /\ context = <<>>
    /\ forensics = NoForensics
    /\ result = None
    /\ indexHits = NotCalled
    /\ query = None
    /\ searchEnv = NoCredential
    /\ prompt = NoPrompt
    /\ llmSynth = NotCalled

NextRetrieve == RetrieveWith(AllIndexOutcomes(Len(claims), knowledge_base))

SpecRetrieve == InitRetrieve /\ [][NextRetrieve]_vars

(* search_claim_origin alone, over every enumerated provider outcome, from *)
(* the state of a run whose extraction call raised and that has no index   *)
InitTrace ==
    /\ embedder = TRUE
    /\ faiss_index = FALSE
    /\ knowledge_base = <<>>
    /\ text = <<" ", "5", "G", "\n">>
    /\ pc = "trace"
    /\ llmExtract = Fail
    /\ claims = <<text>>
    /\ indexHits = NotCalled
    /\ context = <<>>
    /\ forensics = NoForensics
    /\ result = None
    /\ query = None
    /\ searchEnv = NoCredential
    /\ prompt = NoPrompt
    /\ llmSynth = NotCalled
    /\ calls = <<Call("extract", <<text>>), Call("retrieve", <<claims>>)>>
    /\ HookIdle

NextTrace == TraceWith(AllSearchEnvs)

SpecTrace == InitTrace /\ [][NextTrace]_vars

(* The WhatsApp webhook of main.py and the task it creates *)

OK200 == [body |-> <<"OK">>, status |-> 200]

Acknowledgment == <<"namaste! I'm analyzing this for you. This might take a moment... MONOCLE">>

ErrorMsg == <<"Sorry, I encountered an error while analyzing your message. Please try again later.">>

English == <<"e", "n">>

\* str.replace(old, ""), old being one symbol
Remove(s, old) == SelectSeq(s, LAMBDA c : c # old)

LowerOf(c) == CASE c = "H" -> "h" [] c = "I" -> "i" [] OTHER -> c

Lower(s) == [i \in 1..Len(s) |-> LowerOf(s[i])]

Letters == {"e", "n", "h", "i", "H", "I", "G"}

IsAlpha(s) == s # <<>> /\ \A i \in 1..Len(s) : s[i] \in Letters

\* detect_language: the reply trimmed and lowered if it is two letters,
\* 'en' otherwise and on any exception
detect_language(resp) ==
    IF ~resp.ok THEN English
    ELSE LET language_code == Lower(Strip(resp.text))
         IN  IF Len(language_code) = 2 /\ IsAlpha(language_code)
             THEN language_code
             ELSE English

\* translate_to_english and translate_from_english: the reply trimmed, the
\* text itself on any exception
translate(txt, resp) == IF resp.ok THEN Strip(resp.text) ELSE txt

\* send_message adds the channel prefix to a recipient that lacks it
Recipient(number) ==
    IF StartsWith(number, <<"whatsapp:">>) THEN number ELSE <<"whatsapp:">> \o number

\* send_message never raises: it returns False without credentials or when
\* the provider call fails, True otherwise
SendOutcomes == {"sent", "no_credentials", "error"}

SendEvent(number, body, outcome) ==
    [op |-> "send_message", to |-> number, body |-> body, lang |-> None,
     sent_to |-> IF outcome = "no_credentials" THEN None ELSE Recipient(number),
     outcome |-> outcome]

CallEvent(op, body, lang) ==
    [op |-> op, to |-> None, body |-> body, lang |-> lang, sent_to |-> None,
     outcome |-> "returned"]

\* the two tests detected_language != 'en' of process_message_async
TranslateIn(lang) == lang # English

TranslateOut(lang) == lang # English

DetectOutcomes ==
    { Fail, Returned(<<"e", "n">>), Returned(<<" ", "H", "I", "\n">>),
      Returned(<<"h", "i", "n">>), Returned(<<"h", "5">>) }

TranslateInOutcomes == { Fail, Returned(<<" ", "5", "G", "\n">>) }

TranslateOutOutcomes == { Fail, Returned(<<" ", "anuvaad", "\n">>) }

\* the forms a request may carry; a missing field reads as ""
Requests ==
    {[form_ok |-> FALSE, From |-> <<>>, Body |-> <<>>]}
        \cup [form_ok : {TRUE},
              From : {<<>>, <<"whatsapp:">>, <<"whatsapp:", "+", "1">>, <<"+", "1">>},
              Body : {<<>>, <<" ">>, <<" ", "G", " ">>}]

\* a request has arrived at /api/webhook/whatsapp; no analysis is running
InitWebhook ==
    /\ embedder = FALSE
    /\ faiss_index = FALSE
    /\ knowledge_base = <<>>
    /\ text = None
    /\ pc = "idle"
    /\ claims = <<>>
    /\ context = <<>>
    /\ forensics = NoForensics
    /\ result = None
    /\ llmExtract = NotCalled
    /\ indexHits = NotCalled
    /\ query = None
    /\ searchEnv = NoCredential
    /\ prompt = NoPrompt
    /\ llmSynth = NotCalled
    /\ calls = <<>>
    /\ hpc = "request"
    /\ request \in Requests
    /\ from_number = None
    /\ message_body = None
    /\ http = NoResponse
    /\ events = <<>>
    /\ detected_language = None
    /\ final_response = None

pipelineVars == <<pc, text, claims, context, forensics, result, llmExtract,
                  indexHits, query, searchEnv, prompt, llmSynth, embedder,
                  faiss_index, knowledge_base, calls>>

\* whatsapp_webhook: parse the form, validate, acknowledge, create the task,
\* answer OK; every exception is answered OK as well
Webhook ==
    /\ hpc = "request"
    /\ http' = OK200
    /\ \/ /\ ~request.form_ok
          /\ hpc' = "answered"
          /\ UNCHANGED <<from_number, message_body, events>>
       \/ /\ request.form_ok
          /\ from_number' = Remove(request.From, "whatsapp:")
          /\ message_body' = Strip(request.Body)
          /\ IF from_number' = <<>> \/ message_body' = <<>>
             THEN /\ hpc' = "answered"
                  /\ UNCHANGED events
             ELSE /\ hpc' = "task"
                  /\ \E o \in SendOutcomes :
                        events' = <<SendEvent(from_number', Acknowledgment, o)>>
    /\ UNCHANGED <<request, detected_language, final_response>>
    /\ UNCHANGED pipelineVars

\* process_message_async, steps 1 to 3: detect the language, translate to
\* English if needed, call run_analysis
TaskStart ==
    /\ hpc = "task"
    /\ \E d \in DetectOutcomes, t \in TranslateInOutcomes :
          LET lang == detect_language(d)
              english_text == IF TranslateIn(lang)
                              THEN translate(message_body, t)
                              ELSE message_body
          IN  /\ detected_language' = lang
              /\ text' = english_text
              /\ events' = events
                    \o (IF TranslateIn(lang)
                        THEN <<CallEvent("translate_to_english", message_body, lang)>>
                        ELSE <<>>)
                    \o <<CallEvent("run_analysis", english_text, None)>>
    /\ pc' = "extract"
    /\ hpc' = "analysing"
    /\ UNCHANGED <<request, from_number, message_body, http, final_response>>
    /\ UNCHANGED <<claims, context, forensics, result, llmExtract, indexHits, query,
                   searchEnv, prompt, llmSynth, embedder, faiss_index,
                   knowledge_base, calls>>

\* process_message_async, steps 4 and 5: translate the report back if needed
\* and send it
TaskFinish ==
    /\ hpc = "analysing"
    /\ pc = "done"
    /\ \E t \in TranslateOutOutcomes, o \in SendOutcomes :
          LET final == IF TranslateOut(detected_language)
                       THEN translate(result, t)
                       ELSE result
          IN  /\ final_response' = final
              /\ events' = events
                    \o (IF TranslateOut(detected_language)
                        THEN <<CallEvent("translate_from_english", result,
                                         detected_language)>>
                        ELSE <<>>)
                    \o <<SendEvent(from_number, final, o)>>
    /\ hpc' = "finished"
    /\ UNCHANGED <<request, from_number, message_body, http, detected_language>>
    /\ UNCHANGED pipelineVars

NextWebhook ==
    Webhook \/ TaskStart \/ Extract \/ Retrieve \/ Trace \/ TraceBlocks
        \/ Synthesize \/ TaskFinish

SpecWebhook == InitWebhook /\ [][NextWebhook]_vars

----------------------------------------------------------------------------
(* Properties *)

\* the lines of a string
Lines(s) == Split(s, <<"\n">>)

HasLine(s, line) == \E i \in 1..Len(Lines(s)) : Lines(s)[i] = line

\* the symbols of marks occur in s in the order of marks
InOrder(s, marks) ==
    \E pos \in [1..Len(marks) -> 1..Len(s)] :
        /\ \A i \in 1..Len(marks) : s[pos[i]] = marks[i]
        /\ \A i \in 1..(Len(marks) - 1) : pos[i] < pos[i + 1]

Glyphs == {"RED", "YELLOW", "GREEN"}

TierOf(glyph) ==
    CASE glyph = "RED" -> "HIGH RISK"
      [] glyph = "YELLOW" -> "MEDIUM RISK"
      [] glyph = "GREEN" -> "LOW RISK"

GlyphPositions(s) == {i \in 1..Len(s) : s[i] \in Glyphs}

Returns == pc = "done"

(* C1: run_analysis returns a non-empty string for every input and every    *)
(* outcome of the external calls, a blank synthesis text included.          *)
C1_ResultNonEmpty == Returns => result # None /\ result # <<>>

(* C2: the returned string contains the sections **The Gist:**, **Why?**,   *)
(* **MAG Trace Report:**, **Action:** in that order, on the live path and   *)
(* on both canned fallbacks.                                                *)
C2_SectionsInOrder ==
    Returns =>
        InOrder(result, <<"**The Gist:**", "**Why?**", "**MAG Trace Report:**",
                          "**Action:**">>)

TotalOutage == Returns /\ ~llmExtract.ok /\ ~llmSynth.ok

OrchestratorGist == "Unable to analyze this message due to technical issues."

SynthesisGist == "Unable to fully verify this information."

(* C3 as stated: when both reasoning-service calls fail, run_analysis       *)
(* returns the orchestrator-level canned fallback (gist 'Unable to analyze  *)
(* this message due to technical issues.'), not the synthesis-level one.    *)
C3_OutageGivesOrchestratorFallback ==
    TotalOutage =>
        /\ result = OrchestratorFallback
        /\ Contains(result, <<OrchestratorGist>>)
        /\ result # SynthesisFallback

(* C3 amended: when both reasoning-service calls fail, run_analysis returns *)
(* exactly the synthesis-level canned fallback (gist 'Unable to fully       *)
(* verify this information.'), which differs in content from the            *)
(* orchestrator-level canned fallback.                                      *)
C3_OutageGivesSynthesisFallback ==
    TotalOutage =>
        /\ result = SynthesisFallback
        /\ Contains(result, <<SynthesisGist>>)
        /\ ~Contains(result, <<OrchestratorGist>>)
        /\ result # OrchestratorFallback

C3_Witness ==
    /\ TotalOutage
    /\ claims = <<text>>
    /\ searchEnv.kind = "transport"
    /\ Contains(result, <<SynthesisGist>>)

(* C4: the returned string contains exactly one of the glyphs RED, YELLOW,  *)
(* GREEN, followed by its own tier word (RED HIGH RISK, YELLOW MEDIUM RISK, *)
(* GREEN LOW RISK), whatever the reasoning service returned.                *)
C4_OneGlyphWithItsTier ==
    Returns =>
        /\ Cardinality(GlyphPositions(result)) = 1
        /\ \A i \in GlyphPositions(result) :
              /\ i + 2 <= Len(result)
              /\ result[i + 1] = " "
              /\ result[i + 2] = TierOf(result[i])

Extracted == pc = "retrieve"

(* C5: extract_claims returns a list with at least one element for every   *)
(* text and every outcome of the reasoning service.                         *)
C5_ClaimsNonEmpty == Extracted => Len(claims) >= 1

(* C6: when the reasoning-service call of extract_claims raises, the claim  *)
(* list has exactly one element, the input text verbatim.                   *)
C6_FailedExtractionGivesText ==
    (Extracted /\ ~llmExtract.ok) => Len(claims) = 1 /\ claims[1] = text

C6_Witness ==
    /\ Extracted
    /\ ~llmExtract.ok
    /\ text = <<" ", "5", "G", "\n">>
    /\ claims = <<text>>

Traced == pc = "synthesize"

(* C7: the three failure causes of search_claim_origin give three distinct  *)
(* Forensics values with first_seen Unknown: no credential -> 'Unable to    *)
(* trace origin'; transport error -> 'Search unavailable'; non-success      *)
(* status, a body that is not JSON, or a body without a result list ->      *)
(* 'Unable to trace spread pattern'.                                        *)
C7_FailureCausesDistinct ==
    Traced =>
        /\ ~searchEnv.key =>
              forensics = [first_seen |-> <<"Unknown">>,
                           spread_info |-> <<"Unable to trace origin">>]
        /\ (searchEnv.key /\ searchEnv.kind = "transport") =>
              forensics = [first_seen |-> <<"Unknown">>,
                           spread_info |-> <<"Search unavailable">>]
        /\ (searchEnv.key /\ searchEnv.kind \in {"status", "notjson", "nolist"}) =>
              forensics = [first_seen |-> <<"Unknown">>,
                           spread_info |-> <<"Unable to trace spread pattern">>]

\* the hostname of each link the provider is modelled to return
HostOf(link) ==
    CASE link = <<"h", ":", "/", "/", "a", "/", "x">> -> <<"a">>
      [] link = <<"h", ":", "/", "/", "b">> -> <<"b">>
      [] link = <<"d", "/", "p">> -> <<"d">>
      [] link = <<"a", "/", "y">> -> <<"a">>

\* what DomainOf is to give for each modelled link: the text after the last
\* "//" up to the next "/"
AfterLastSlashes(link) ==
    CASE link = <<"h", ":", "/", "/", "a", "/", "x", "/", "/", "c", "/", "y">> -> <<"c">>
      [] OTHER -> HostOf(link)

HasLink(r) == "link" \in DOMAIN r

\* n > 3, n in 2..3, n <= 1
Classified(n) ==
    CASE n > 3 -> <<"Widely shared across multiple platforms">>
      [] n \in 2..3 -> <<"Shared on a few platforms">>
      [] n <= 1 -> <<"Limited sharing detected">>

GotResults == Traced /\ searchEnv.key /\ searchEnv.kind = "results"

C9_TraceLinesInResult ==
    Returns =>
        /\ HasLine(result, <<"CAL First Seen: ">> \o forensics.first_seen)
        /\ HasLine(result, <<"CHART How it's Spreading: ">> \o forensics.spread_info)

\* a trimmed line starts with digits and a period
HasNumberMarker(line) ==
    LET n == LeadCount(line, Digits)
    IN  n >= 1 /\ Len(line) > n /\ line[n + 1] = "."

HasDashMarker(line) == line # <<>> /\ line[1] = "-"

\* the claims of C10 for the trimmed lines of a response
RECURSIVE MarkedClaims(_)
MarkedClaims(lines) ==
    IF lines = <<>>
    THEN <<>>
    ELSE LET line == Strip(Head(lines))
             n == LeadCount(line, Digits)
         IN  (IF HasNumberMarker(line) THEN <<Strip(Drop(line, n + 1))>>
              ELSE IF HasDashMarker(line) THEN <<Strip(Drop(line, 1))>>
              ELSE <<>>)
                 \o MarkedClaims(Tail(lines))

(* C10: a line of the response becomes a claim iff, trimmed, it starts with  *)
(* a digit followed by a period or with a dash; the claim is the line        *)
(* without that marker; every other line is discarded.                       *)
C10_AcceptedIffMarked ==
    (Extracted /\ llmExtract.ok) =>
        claims = MarkedClaims(Lines(Strip(llmExtract.text)))

StageOrder == <<"extract", "retrieve", "trace", "synthesize">>

StagesCalled == [i \in 1..Len(calls) |-> calls[i].stage]

(* C11: run_analysis calls extract, retrieve, trace, synthesize in that      *)
(* order, each once, a stage only after the previous one returned; trace     *)
(* receives the first extracted claim, or the input text when there is no    *)
(* claim; synthesize receives the claims, evidence and forensics of the same *)
(* run and the input text.                                                   *)
C11_StagesInOrderWithArguments ==
    /\ StagesCalled = SubSeq(StageOrder, 1, Len(calls))
    /\ Returns => StagesCalled = StageOrder
    /\ Len(calls) >= 1 => calls[1].args = <<text>>
    /\ Len(calls) >= 2 =>
          calls[2].args = <<extract_claims(calls[1].args[1], llmExtract)>>
    /\ Len(calls) >= 3 =>
          /\ claims = <<>> => calls[3].args = <<text>>
          /\ claims # <<>> => calls[3].args = <<claims[1]>>
          /\ searchEnv.key => query = <<"\"">> \o calls[3].args[1] \o <<"\"">>
    /\ Len(calls) >= 4 =>
          /\ calls[4].args = <<calls[2].args[1], context, forensics, text>>
          /\ context = retrieve_relevant_context(embedder, faiss_index,
                                                 knowledge_base, indexHits)
          /\ forensics = search_claim_origin(searchEnv)
          /\ prompt.original_text = text

C11_Witness ==
    /\ Returns
    /\ Len(claims) = 2
    /\ claims[1] # claims[2]
    /\ context # <<>>
    /\ searchEnv.key
    /\ StagesCalled = StageOrder

C11_WitnessNoClaims ==
    /\ Returns
    /\ claims = <<>>
    /\ calls[3].args = <<text>>

(* C12: every external call carries a timeout, so a started run always      *)
(* reaches a terminal result, also when a dependency never responds: a run   *)
(* that has not returned can always take a further step.                     *)
C12_RunReachesResult == Returns \/ ENABLED Next

Retrieved == pc = "trace"

CorpusAvailable == embedder /\ faiss_index /\ knowledge_base # <<>>

\* the passages at the indices of one claim that lie in 0..Len(kb)-1
RECURSIVE PassagesInRange(_, _)
PassagesInRange(kb, indices) ==
    IF indices = <<>>
    THEN <<>>
    ELSE (IF Head(indices) >= 0 /\ Head(indices) < Len(kb)
          THEN <<kb[Head(indices) + 1]>> ELSE <<>>)
             \o PassagesInRange(kb, Tail(indices))

\* the concatenation over the claims, in claim order
RECURSIVE EvidenceInRange(_, _)
EvidenceInRange(kb, hits) ==
    IF hits = <<>>
    THEN <<>>
    ELSE PassagesInRange(kb, Head(hits)) \o EvidenceInRange(kb, Tail(hits))

(* C13: with embedder, index and a non-empty corpus, the evidence is the     *)
(* concatenation, in claim order and rank order, of the passages at the      *)
(* k = min(3, corpus size) indices the index returned for each claim, an     *)
(* index outside 0..size-1 (-1, or >= size) contributing nothing; without    *)
(* embedder, index or corpus the evidence is empty.                          *)
C13_EvidenceOfReturnedIndices ==
    Retrieved =>
        /\ (CorpusAvailable /\ indexHits.ok) =>
              /\ Len(indexHits.text) = Len(claims)
              /\ \A i \in 1..Len(claims) :
                    Len(indexHits.text[i]) =
                        (IF Len(knowledge_base) < 3 THEN Len(knowledge_base) ELSE 3)
              /\ context = EvidenceInRange(knowledge_base, indexHits.text)
        /\ ~CorpusAvailable => context = <<>>

\* a <= b in the order of Python str: a is a prefix of b, or at the first
\* position where they differ a has the smaller code point
LexLeq(a, b) ==
    \/ Len(a) <= Len(b) /\ SubSeq(b, 1, Len(a)) = a
    \/ \E i \in 1..Len(a) :
          /\ i <= Len(b)
          /\ SubSeq(a, 1, i - 1) = SubSeq(b, 1, i - 1)
          /\ CodePoint(a[i]) < CodePoint(b[i])

HasDate(r) == "date" \in DOMAIN r

DatesFound ==
    {searchEnv.results[i].date :
        i \in {j \in 1..Len(searchEnv.results) : HasDate(searchEnv.results[j])}}

(* C14: first_seen is the minimum, by string comparison, of all dates of the *)
(* result list; Recently when the list has no dated result; and Unknown      *)
(* exactly when the search failed, gave no usable result list, or no         *)
(* credential is configured.                                                 *)
C14_FirstSeen ==
    Traced =>
        /\ (GotResults /\ DatesFound # {}) =>
              /\ forensics.first_seen \in DatesFound
              /\ \A d \in DatesFound : LexLeq(forensics.first_seen, d)
        /\ (GotResults /\ DatesFound = {}) => forensics.first_seen = <<"Recently">>
        /\ forensics.first_seen = <<"Unknown">> <=> ~GotResults

C14_Witness ==
    /\ GotResults
    /\ Len(searchEnv.results) = 6
    /\ DatesFound = {<<"9">>, <<"2", "1">>, <<"1", "9">>}
    /\ HasDate(searchEnv.results[6])
    /\ searchEnv.results[6].date = <<"1", "9">>
    /\ \A i \in 1..5 : HasDate(searchEnv.results[i]) =>
                          searchEnv.results[i].date # <<"1", "9">>
    /\ forensics.first_seen = <<"1", "9">>


(* The message flow of the webhook *)

Handled == hpc # "request"

\* the request carries a sender besides the channel prefix and a body besides
\* white space
ValidRequest ==
    /\ request.form_ok
    /\ \E i \in 1..Len(request.From) : request.From[i] # "whatsapp:"
    /\ \E i \in 1..Len(request.Body) : request.Body[i] \notin Whitespace

OpsAt(op) == {i \in 1..Len(events) : events[i].op = op}

Sends == OpsAt("send_message")

AnalysisStarted == pc # "idle"

C15_AnswersOK == Handled => http = OK200

C15_InvalidRequestIgnored ==
    (Handled /\ ~ValidRequest) =>
        /\ events = <<>>
        /\ ~AnalysisStarted
        /\ calls = <<>>

C15_AckBeforeAnalysis ==
    (Handled /\ ValidRequest) =>
        /\ 1 \in Sends
        /\ events[1].body = Acknowledgment
        /\ Remove(events[1].to, "whatsapp:") = Remove(request.From, "whatsapp:")
        /\ AnalysisStarted =>
              /\ Cardinality(OpsAt("run_analysis")) = 1
              /\ \A i \in OpsAt("run_analysis") : i > 1 /\ events[i].body = text

C15_AtMostOneFurtherSend ==
    /\ Cardinality(Sends) <= 2
    /\ Cardinality(Sends) = 2 =>
          /\ Len(events) \in Sends
          /\ \A i \in OpsAt("run_analysis") : i < Len(events)
          /\ events[Len(events)].to = events[1].to
          /\ events[Len(events)].body \in {final_response, ErrorMsg}
          /\ pc = "done"

\* a handled request whose task can take no further step has had its second
\* send
C15_OneFurtherSend ==
    (Handled /\ ValidRequest /\ ~ENABLED NextWebhook) => Cardinality(Sends) = 2

C15_TranslatedBackIffTranslated ==
    /\ OpsAt("translate_from_english") # {} => OpsAt("translate_to_english") # {}
    /\ hpc = "finished" =>
          /\ OpsAt("translate_from_english") # {} <=> OpsAt("translate_to_english") # {}
          /\ OpsAt("translate_to_english") # {} <=> detected_language # English
          /\ OpsAt("translate_from_english") = {} => final_response = result
          /\ \A i \in OpsAt("translate_from_english") :
                /\ events[i].body = result
                /\ events[i].lang = detected_language
                /\ i = Len(events) - 1

\* what the flow keeps in every run, the blocked ones included
C15_FlowOfCompletedSteps ==
    /\ C15_AnswersOK
    /\ C15_InvalidRequestIgnored
    /\ C15_AckBeforeAnalysis
    /\ C15_AtMostOneFurtherSend
    /\ C15_TranslatedBackIffTranslated

C15_FlowWitness ==
    /\ hpc = "finished"
    /\ detected_language = <<"h", "i">>
    /\ Cardinality(Sends) = 2
    /\ Len(events) = 5
    /\ final_response = <<"anuvaad">>

(* C15: a request with a sender and a body gets its acknowledgment send      *)
(* before its analysis starts and then exactly one further send, the final   *)
(* report or the error message, never both and never neither; a request      *)
(* without sender or body gets no send and no analysis; every request is     *)
(* answered "OK" with status 200; the report is translated back iff the      *)
(* input was translated to English.                                          *)
C15_MessageFlow == C15_FlowOfCompletedSteps /\ C15_OneFurtherSend

====
